---- MODULE Spec2Model ----
(***************************************************************************)
(* CupCakeNFT marketplace front-end.                                       *)
(*                                                                         *)
(*   Home (page component)      the compliance gate: wallet address,       *)
(*                              checkCompliance calls in flight, the       *)
(*                              isCompliant flag and what is rendered.     *)
(*   POST /api/compliance       the gating endpoint, a pure function of    *)
(*                              the request, the environment and the       *)
(*                              screening provider's answer.               *)
(*   useRecentlyListNFTs        the listing reconciler (nftDataList).      *)
(*                                                                         *)
(* Three specifications share the module:                                  *)
(*   Spec     the gate, with the endpoint answering its calls;             *)
(*   SpecApi  the endpoint alone, over every request shape;                *)
(*   SpecRec  the reconciler, over bounded query results.                  *)
(***************************************************************************)
EXTENDS Integers, Sequences, FiniteSets, TLC

\* ------------------------------------------------------------------ bounds
MaxCalls == 2        \* checkCompliance calls started in one behaviour
MaxListed == 2       \* length of an enumerated short `listed` collection
MaxTerminated == 1   \* bought and cancelled events in one query result
MaxExtra == 2        \* long `listed` collections run up to Cap + MaxExtra

\* --------------------------------------------------------------- constants
Cap == 100           \* slice(0, 100)

VARIABLES
    ENABLE_COMPLIANCE_CHECK,  \* process.env.ENABLE_COMPLIANCE_CHECK
    CIRCLE_API_KEY,           \* process.env.CIRCLE_API_KEY ("" = not set)
    isConnected,              \* useAccount().isConnected
    address,                  \* useAccount().address ("" = undefined)
    isCompliant,              \* useState(true)
    calls,                    \* checkCompliance invocations, in start order
    lastApplied,              \* index in calls of the last setIsCompliant, 0 = none
    request,                  \* a request sent to the endpoint
    provider,                 \* what the screening provider answers to it
    response,                 \* the endpoint's response to it
    data,                     \* the query result useQuery will deliver
    queryStatus,              \* "loading" | "success" | "error"
    nftDataList,              \* the memoised output of the reconciler
    renderError               \* the useMemo callback threw a TypeError

envVars == <<ENABLE_COMPLIANCE_CHECK, CIRCLE_API_KEY>>
gateVars == <<isConnected, address, isCompliant, calls, lastApplied>>
apiVars == <<request, provider, response>>
recVars == <<data, queryStatus, nftDataList, renderError>>
vars == <<envVars, gateVars, apiVars, recVars>>

Min(a, b) == IF a < b THEN a ELSE b

(***************************************************************************)
(* The gating endpoint: src/src/app/api/compliance/route.ts                *)
(***************************************************************************)
EnableValues == {"true", "1", ""}
ApiKeyValues == {"", "key"}

Addresses == {"0xA", "0xB"}

\* The provider's answer to the screening fetch: the fetch rejects, or a
\* response arrives with a status and a body.  Bodies: not JSON, the JSON
\* value null, or an object whose result field is the given string.
ProviderStatuses == {200, 403}
ProviderBodies == {"unparsable", "null", "APPROVED", "DENIED"}
ProviderOutcomes ==
    {[kind |-> "reject", status |-> 0, body |-> ""]}
    \cup [kind : {"response"}, status : ProviderStatuses, body : ProviderBodies]
NoProvider == [kind |-> "none", status |-> 0, body |-> ""]

\* circleResponse.ok
IsOk(status) == status >= 200 /\ status <= 299

\* A request body: not JSON (request.json() throws), or an object whose
\* address field is the given string ("" = missing or empty).
Requests == {[parsable |-> FALSE, address |-> ""]}
            \cup [parsable : {TRUE}, address : Addresses \cup {""}]

\* Responses.  hasIsApproved tells whether the body has an isApproved field;
\* providerCalls logs the fetches to the provider issued while handling.
NoResponse ==
    [status |-> 0, success |-> FALSE, hasIsApproved |-> FALSE,
     isApproved |-> FALSE, providerCalls |-> 0]

ErrorResponse(st, n) ==
    [status |-> st, success |-> FALSE, hasIsApproved |-> FALSE,
     isApproved |-> FALSE, providerCalls |-> n]

ApprovalResponse(approved, n) ==
    [status |-> 200, success |-> TRUE, hasIsApproved |-> TRUE,
     isApproved |-> approved, providerCalls |-> n]

\* Mutation: any non-empty flag enables screening.
complianceEnabled_Truthy(flag) == flag # ""

\* process.env.ENABLE_COMPLIANCE_CHECK === 'true'
complianceEnabled(flag) == flag = "true"

\* Steps 7 and 8 of the handler, once the provider's response is in hand.
ProcessProviderResponse(prov) ==
    IF prov.body = "unparsable"
    THEN ErrorResponse(500, 1)                \* circleResponse.json() throws
    ELSE IF ~IsOk(prov.status)
    THEN IF prov.body = "null"
         THEN ErrorResponse(500, 1)           \* responseData.message on null throws
         ELSE ErrorResponse(prov.status, 1)
    ELSE ApprovalResponse(prov.body = "APPROVED", 1)

\* Mutation: the feature flag is consulted before the address is validated.
POST_BypassFirst(req, flag, key, prov) ==
    IF ~req.parsable THEN ErrorResponse(500, 0)
    ELSE IF flag # "true" THEN ApprovalResponse(TRUE, 0)
    ELSE IF req.address = "" THEN ErrorResponse(400, 0)
    ELSE IF key = "" THEN ErrorResponse(500, 0)
    ELSE IF prov.kind = "reject" THEN ErrorResponse(500, 1)
    ELSE ProcessProviderResponse(prov)

\* Mutation: the API key is not checked before the provider is called.
POST_NoKeyCheck(req, flag, key, prov) ==
    IF ~req.parsable THEN ErrorResponse(500, 0)
    ELSE IF req.address = "" THEN ErrorResponse(400, 0)
    ELSE IF flag # "true" THEN ApprovalResponse(TRUE, 0)
    ELSE IF prov.kind = "reject" THEN ErrorResponse(500, 1)
    ELSE ProcessProviderResponse(prov)

\* export async function POST(request)
POST(req, flag, key, prov) ==
    IF ~req.parsable THEN ErrorResponse(500, 0)          \* request.json() throws
    ELSE IF req.address = "" THEN ErrorResponse(400, 0)
    ELSE IF ~complianceEnabled(flag) THEN ApprovalResponse(TRUE, 0)
    ELSE IF key = "" THEN ErrorResponse(500, 0)
    ELSE IF prov.kind = "reject" THEN ErrorResponse(500, 1)   \* fetch rejects
    ELSE ProcessProviderResponse(prov)

(***************************************************************************)
(* The compliance gate: src/unnamed/part_000 (Home)                        *)
(***************************************************************************)
NewCall(a) ==
    [addr |-> a, phase |-> "sent", resp |-> NoResponse, prov |-> NoProvider]

\* useEffect(() => { if (address) checkCompliance() }, [address]), run after
\* the address changed to a: checkCompliance sends the request and suspends.
AddressEffect(a) ==
    IF a # "" THEN calls' = Append(calls, NewCall(a)) ELSE calls' = calls

\* Mutation: the flag follows success alone.
ComplianceOf_SuccessOnly(result) == result.success

\* setIsCompliant(result.success && result.isApproved); a missing isApproved
\* is undefined, which renders as not compliant.
ComplianceOf(result) ==
    result.success /\ result.hasIsApproved /\ result.isApproved

\* Mutation: the render tests isCompliant alone.
View_IgnoreConnection == IF isCompliant THEN "listings" ELSE "denied"

\* What Home renders.
View ==
    IF ~isConnected THEN "connect"
    ELSE IF isCompliant THEN "listings"
    ELSE "denied"

Connect(a) ==
    /\ ~isConnected
    /\ Len(calls) < MaxCalls
    /\ isConnected' = TRUE
    /\ address' = a
    /\ AddressEffect(a)
    /\ UNCHANGED <<isCompliant, lastApplied, envVars, apiVars, recVars>>

SwitchAccount(b) ==
    /\ isConnected
    /\ b # address
    /\ Len(calls) < MaxCalls
    /\ address' = b
    /\ AddressEffect(b)
    /\ UNCHANGED <<isConnected, isCompliant, lastApplied, envVars, apiVars, recVars>>

Disconnect ==
    /\ isConnected
    /\ isConnected' = FALSE
    /\ address' = ""
    /\ AddressEffect("")
    /\ UNCHANGED <<isCompliant, lastApplied, envVars, apiVars, recVars>>

\* The endpoint handles the request of call i and answers it.
EndpointAnswers(i) ==
    /\ calls[i].phase = "sent"
    /\ \E prov \in ProviderOutcomes :
         LET resp == POST([parsable |-> TRUE, address |-> calls[i].addr],
                          ENABLE_COMPLIANCE_CHECK, CIRCLE_API_KEY, prov)
         IN calls' = [calls EXCEPT
                        ![i].phase = "answered",
                        ![i].resp = resp,
                        ![i].prov = IF resp.providerCalls = 0
                                    THEN NoProvider ELSE prov]
    /\ UNCHANGED <<isConnected, address, isCompliant, lastApplied, envVars, apiVars, recVars>>

\* await fetch(...) rejects, or await response.json() rejects: the promise of
\* checkCompliance rejects and setIsCompliant is never reached.
FetchFails(i) ==
    /\ calls[i].phase \in {"sent", "answered"}
    /\ calls' = [calls EXCEPT ![i].phase = "lost"]
    /\ UNCHANGED <<isConnected, address, isCompliant, lastApplied, envVars, apiVars, recVars>>

\* The response of call i reaches checkCompliance, which resumes.
Deliver(i) ==
    /\ calls[i].phase = "answered"
    /\ isCompliant' = ComplianceOf(calls[i].resp)
    /\ calls' = [calls EXCEPT ![i].phase = "applied"]
    /\ lastApplied' = i
    /\ UNCHANGED <<isConnected, address, envVars, apiVars, recVars>>

\* ---------------------------------------------------------------- the endpoint alone
Handle ==
    /\ response = NoResponse
    /\ response' = POST(request, ENABLE_COMPLIANCE_CHECK, CIRCLE_API_KEY, provider)
    /\ UNCHANGED <<request, provider, envVars, gateVars, recVars>>

(***************************************************************************)
(* The listing reconciler: src/src/components/RecentlyListed.tsx           *)
(***************************************************************************)
Marketplace == "0xM"    \* the contract emitting the events
\* Hexadecimal addresses and decimal token ids, chosen so that the two
\* fields run into each other when written side by side: "0xA" "11" and
\* "0xA1" "1".
NftAddresses == {"0xA", "0xA1"}
TokenIds == {"1", "11"}

\* BoughtCancelled: the complete events, one without a token id and one
\* without an address.
TerminatedItems ==
    [nftAddress : NftAddresses, tokenId : TokenIds]
    \cup {[nftAddress |-> "0xA", tokenId |-> ""], [nftAddress |-> "", tokenId |-> "1"]}

\* NFTItem, as far as the reconciler reads it.
ListedItems ==
    {[nftAddress |-> t.nftAddress, tokenId |-> t.tokenId,
      contractAddress |-> Marketplace, price |-> "10", seller |-> "0xS"] :
        t \in TerminatedItems}

SeqsUpTo(S, n) == UNION {[1..k -> S] : k \in 0..n}

\* A collection of the query result: absent, or an object with its nodes.
Absent == [present |-> FALSE, nodes |-> <<>>]
Nodes(s) == [present |-> TRUE, nodes |-> s]

EmptyData == [listed |-> Nodes(<<>>), bought |-> Nodes(<<>>), cancelled |-> Nodes(<<>>)]

\* A `listed` collection longer than the cap: n events of one contract with
\* token ids "1" .. "n"; the event at position hole (if any) has no token id.
LongItem(i, hole) ==
    [nftAddress |-> "0xA", tokenId |-> IF i = hole THEN "" ELSE ToString(i),
     contractAddress |-> Marketplace, price |-> "10", seller |-> "0xS"]
LongListed(n, hole) == [i \in 1..n |-> LongItem(i, hole)]

ListedInputs ==
    {Absent}
    \cup {Nodes(s) : s \in SeqsUpTo(ListedItems, MaxListed)}
    \cup {Nodes(LongListed(n, hole)) : n \in (Cap - 1)..(Cap + MaxExtra), hole \in {0, 2}}

TerminatedInputs ==
    {Absent} \cup {Nodes(s) : s \in SeqsUpTo(TerminatedItems, MaxTerminated)}

\* The query results the indexer can deliver.
DataInputs ==
    {d \in [listed : ListedInputs, bought : TerminatedInputs, cancelled : TerminatedInputs] :
        Len(d.bought.nodes) + Len(d.cancelled.nodes) <= MaxTerminated}

\* Mutation: the key is built without the separator.
KeyOf_NoSeparator(item) == item.nftAddress \o item.tokenId

\* `${item.nftAddress}-${item.tokenId}`
KeyOf(item) == item.nftAddress \o "-" \o item.tokenId

\* item.nftAddress && item.tokenId
Complete(item) == item.nftAddress # "" /\ item.tokenId # ""

\* The Set built by coll?.nodes.forEach(...): nothing is added when the
\* collection is absent.
KeySet(coll) ==
    IF ~coll.present THEN {}
    ELSE {KeyOf(coll.nodes[i]) : i \in {j \in DOMAIN coll.nodes : Complete(coll.nodes[j])}}

\* Mutation: the cancelled set is not consulted.
IsActive_BoughtOnly(item, boughtNFTs, cancelledNFTs) ==
    IF ~(item.nftAddress # "" /\ item.tokenId # "") THEN FALSE
    ELSE (item.nftAddress \o "-" \o item.tokenId) \notin boughtNFTs

\* Mutation: incomplete items are not skipped.
IsActive_NoSkip(item, boughtNFTs, cancelledNFTs) ==
    /\ (item.nftAddress \o "-" \o item.tokenId) \notin boughtNFTs
    /\ (item.nftAddress \o "-" \o item.tokenId) \notin cancelledNFTs

\* The callback of allItemListeds.nodes.filter
IsActive(item, boughtNFTs, cancelledNFTs) ==
    IF ~Complete(item) THEN FALSE
    ELSE KeyOf(item) \notin boughtNFTs /\ KeyOf(item) \notin cancelledNFTs

\* Mutation: slice(-100), the last hundred.
Slice_Last(s) == SubSeq(s, Len(s) - Min(Len(s), Cap) + 1, Len(s))

\* activeNfts.slice(0, 100)
Slice(s) == SubSeq(s, 1, Min(Len(s), Cap))

\* Mutation: contractAddress is taken from the event's own contractAddress.
Project_EmitterAddress(nft) ==
    [tokenId |-> nft.tokenId, contractAddress |-> nft.contractAddress,
     price |-> nft.price, seller |-> nft.seller]

\* The callback of recentActiveNfts.map
Project(nft) ==
    [tokenId |-> nft.tokenId, contractAddress |-> nft.nftAddress,
     price |-> nft.price, seller |-> nft.seller]

\* The useMemo callback for a loaded query result d.  allItemListeds is read
\* without optional chaining: when it is absent the callback throws.
Throws(d) == ~d.listed.present

Reconcile(d) ==
    LET boughtNFTs == KeySet(d.bought)
        cancelledNFTs == KeySet(d.cancelled)
        Keep(item) == IsActive(item, boughtNFTs, cancelledNFTs)
        activeNfts == SelectSeq(d.listed.nodes, Keep)
        recentActiveNfts == Slice(activeNfts)
    IN [i \in DOMAIN recentActiveNfts |-> Project(recentActiveNfts[i])]

\* The query resolves with `data`: the hook re-renders and useMemo recomputes.
QueryResolves ==
    /\ queryStatus = "loading"
    /\ queryStatus' = "success"
    /\ renderError' = Throws(data)
    /\ nftDataList' = IF Throws(data) THEN nftDataList ELSE Reconcile(data)
    /\ UNCHANGED <<data, envVars, gateVars, apiVars>>

\* fetchNFTs throws (HTTP error or GraphQL errors): data stays undefined and
\* the memoised list stays [].
QueryFails ==
    /\ queryStatus = "loading"
    /\ queryStatus' = "error"
    /\ UNCHANGED <<data, nftDataList, renderError, envVars, gateVars, apiVars>>

(***************************************************************************)
(* Specifications                                                          *)
(***************************************************************************)
EnvInit ==
    /\ ENABLE_COMPLIANCE_CHECK \in EnableValues
    /\ CIRCLE_API_KEY \in ApiKeyValues

GateIdle ==
    /\ isConnected = FALSE
    /\ address = ""
    /\ isCompliant = TRUE
    /\ calls = <<>>
    /\ lastApplied = 0

ApiIdle ==
    /\ request = [parsable |-> TRUE, address |-> ""]
    /\ provider = NoProvider
    /\ response = NoResponse

RecIdle ==
    /\ data = EmptyData
    /\ queryStatus = "loading"
    /\ nftDataList = <<>>
    /\ renderError = FALSE

\* The gate.
Init == EnvInit /\ GateIdle /\ ApiIdle /\ RecIdle

Next ==
    \/ \E a \in Addresses : Connect(a)
    \/ \E b \in Addresses : SwitchAccount(b)
    \/ Disconnect
    \/ \E i \in DOMAIN calls : EndpointAnswers(i)
    \/ \E i \in DOMAIN calls : FetchFails(i)
    \/ \E i \in DOMAIN calls : Deliver(i)

Spec == Init /\ [][Next]_vars

\* The endpoint alone.
InitApi ==
    /\ EnvInit /\ GateIdle /\ RecIdle
    /\ request \in Requests
    /\ provider \in ProviderOutcomes
    /\ response = NoResponse

NextApi == Handle

SpecApi == InitApi /\ [][NextApi]_vars

\* The reconciler.
EnvIdle ==
    /\ ENABLE_COMPLIANCE_CHECK = "true"
    /\ CIRCLE_API_KEY = "key"

InitRec ==
    /\ EnvIdle /\ GateIdle /\ ApiIdle
    /\ data \in DataInputs
    /\ queryStatus = "loading"
    /\ nftDataList = <<>>
    /\ renderError = FALSE

NextRec ==
    \/ QueryResolves
    \/ QueryFails

SpecRec == InitRec /\ [][NextRec]_vars

(***************************************************************************)
(* Properties of the compliance gate (specification Spec)                  *)
(***************************************************************************)
Settled(c) == c.phase \in {"applied", "lost"}

\* The provider call succeeded and reported the approved sentinel.
ProviderApproved(prov) ==
    prov.kind = "response" /\ IsOk(prov.status) /\ prov.body = "APPROVED"

\* C1: when a call for A is followed by a call for the address B that is
\* still connected, and both have completed in whatever order, the decision
\* is the result of B's call; A's late response never determines it.
C1_StaleResponseDiscarded ==
    \A i \in DOMAIN calls :
        ( /\ i > 1
          /\ i = Len(calls)
          /\ isConnected
          /\ calls[i].addr = address
          /\ calls[i - 1].addr # address
          /\ calls[i].phase = "applied"
          /\ Settled(calls[i - 1]) )
        => isCompliant = ComplianceOf(calls[i].resp)

\* C2: whenever the listings are rendered, the screening call of the
\* connected address has completed and was approved; they are never rendered
\* while that call is pending.
C2_ListingsOnlyAfterApproval ==
    View = "listings"
    => /\ calls # <<>>
       /\ calls[Len(calls)].addr = address
       /\ calls[Len(calls)].phase = "applied"
       /\ ComplianceOf(calls[Len(calls)].resp)

\* The evaluation of call c failed: the client's request rejected or its body
\* could not be parsed, or the endpoint answered an error object, or the
\* answer has no isApproved field.
EvaluationFailed(c) ==
    \/ c.phase = "lost"
    \/ c.phase = "applied" /\ (~c.resp.success \/ ~c.resp.hasIsApproved)

\* C3: once the evaluation of the connected address has failed, in any of
\* the ways above, the gate is Denied: the listings are not shown.
C3_FailClosed ==
    ( /\ isConnected
      /\ calls # <<>>
      /\ calls[Len(calls)].addr = address
      /\ \A i \in DOMAIN calls : Settled(calls[i])
      /\ EvaluationFailed(calls[Len(calls)]) )
    => ~isCompliant

\* C4: with screening enabled and the API key configured, once a response
\* has been delivered to the gate, the gate is Approved exactly when the
\* provider call of that response returned a 2xx status and the result
\* "APPROVED"; every other provider outcome leaves it Denied.
C4_ApprovedIffProviderApproved ==
    ( /\ ENABLE_COMPLIANCE_CHECK = "true"
      /\ CIRCLE_API_KEY # ""
      /\ lastApplied # 0 )
    => (isCompliant <=> ProviderApproved(calls[lastApplied].prov))

C4_Witness ==
    /\ ENABLE_COMPLIANCE_CHECK = "true"
    /\ CIRCLE_API_KEY # ""
    /\ lastApplied # 0
    /\ ProviderApproved(calls[lastApplied].prov)
    /\ isCompliant
    /\ \E i \in DOMAIN calls :
         /\ calls[i].phase = "applied"
         /\ calls[i].prov.kind = "response"
         /\ ~ProviderApproved(calls[i].prov)

\* C5: when the flag is anything other than "true", every answer of the
\* endpoint to a request carrying an address is success=true,
\* isApproved=true with no request made to the provider, and the gate is
\* Approved once such an answer is delivered.
C5_DisabledApprovesWithoutProvider ==
    ENABLE_COMPLIANCE_CHECK # "true"
    => /\ \A i \in DOMAIN calls :
            calls[i].phase \in {"answered", "applied"}
            => /\ calls[i].resp.success
               /\ calls[i].resp.hasIsApproved
               /\ calls[i].resp.isApproved
               /\ calls[i].resp.providerCalls = 0
               /\ calls[i].prov = NoProvider
       /\ lastApplied # 0 => isCompliant

C5_Witness ==
    /\ ENABLE_COMPLIANCE_CHECK = "1"
    /\ CIRCLE_API_KEY = ""
    /\ lastApplied # 0
    /\ calls[lastApplied].resp.providerCalls = 0
    /\ isCompliant

(***************************************************************************)
(* Properties of the gating endpoint (specification SpecApi)               *)
(***************************************************************************)
Handled == response # NoResponse

\* C6: an error response carries the status of its failure class: 400 for a
\* missing address, 500 for a missing API key or an internal error, and the
\* provider's own status whenever the provider answered with a non-success
\* status, whatever the body of that answer.
C6_ErrorStatusReflectsFailureClass ==
    (Handled /\ ~response.success)
    => /\ (request.parsable /\ request.address = "") => response.status = 400
       /\ ~request.parsable => response.status = 500
       /\ (response.providerCalls = 0 /\ request.parsable /\ request.address # "")
            => response.status = 500
       /\ (response.providerCalls = 1 /\ provider.kind = "reject")
            => response.status = 500
       /\ (response.providerCalls = 1 /\ provider.kind = "response"
             /\ ~IsOk(provider.status))
            => response.status = provider.status

(***************************************************************************)
(* Properties of the listing reconciler (specification SpecRec)            *)
(***************************************************************************)
Reconciled == queryStatus = "success" /\ ~renderError

\* Some event of collection coll has the address a and the token id t.
Occurs(coll, a, t) ==
    \E i \in DOMAIN coll.nodes :
        coll.nodes[i].nftAddress = a /\ coll.nodes[i].tokenId = t

\* The number of events of sequence s that carry the pair (a, t).
CountListed(s, a, t) ==
    Cardinality({i \in DOMAIN s : s[i].nftAddress = a /\ s[i].tokenId = t})
CountOutput(s, a, t) ==
    Cardinality({i \in DOMAIN s : s[i].contractAddress = a /\ s[i].tokenId = t})

\* C7: every record of the output has an (address, tokenId) pair that occurs
\* in listed and in neither bought nor cancelled: a pair with a terminating
\* event is never active, whatever the order of the events.
C7_OutputListedAndNotTerminated ==
    Reconciled
    => \A j \in DOMAIN nftDataList :
         /\ Occurs(data.listed, nftDataList[j].contractAddress, nftDataList[j].tokenId)
         /\ ~Occurs(data.bought, nftDataList[j].contractAddress, nftDataList[j].tokenId)
         /\ ~Occurs(data.cancelled, nftDataList[j].contractAddress, nftDataList[j].tokenId)

C7_Witness ==
    /\ Reconciled
    /\ Len(data.listed.nodes) = 2
    /\ Len(nftDataList) = 1
    /\ Len(data.cancelled.nodes) = 1
    /\ Occurs(data.listed, data.cancelled.nodes[1].nftAddress, data.cancelled.nodes[1].tokenId)
    /\ Complete(data.cancelled.nodes[1])

Survivors ==
    LET terminated == KeySet(data.bought) \cup KeySet(data.cancelled)
        s == data.listed.nodes
    IN {i \in DOMAIN s :
          /\ s[i].nftAddress # ""
          /\ s[i].tokenId # ""
          /\ (s[i].nftAddress \o "-" \o s[i].tokenId) \notin terminated}

SameListing(out, item) ==
    /\ out.tokenId = item.tokenId
    /\ out.contractAddress = item.nftAddress
    /\ out.price = item.price
    /\ out.seller = item.seller

\* C9: the output is the survivors of listed in input order, cut to the
\* first 100: exactly 100 records when more than 100 survive, all of them
\* otherwise.
C9_OrderPreservedAndTruncated ==
    Reconciled
    => LET surv == Survivors
       IN /\ Len(nftDataList) = Min(Cardinality(surv), 100)
          /\ \A i \in surv :
               LET rank == Cardinality({k \in surv : k <= i})
               IN rank <= 100 => SameListing(nftDataList[rank], data.listed.nodes[i])

C9_Witness ==
    /\ Reconciled
    /\ Cardinality(Survivors) > 100
    /\ Len(nftDataList) = 100
    /\ Len(data.bought.nodes) = 1
    /\ Cardinality(Survivors) < Len(data.listed.nodes)

\* C10: no record of the output has an empty tokenId or contractAddress,
\* and an incomplete event does not abort the derivation: every complete
\* event that is not terminated is still output (up to the cap).
C10_IncompleteExcluded ==
    (queryStatus = "success" /\ data.listed.present)
    => /\ ~renderError
       /\ \A j \in DOMAIN nftDataList :
            nftDataList[j].tokenId # "" /\ nftDataList[j].contractAddress # ""
       /\ \A i \in DOMAIN data.listed.nodes :
            ( /\ Len(data.listed.nodes) <= 100
              /\ data.listed.nodes[i].nftAddress # ""
              /\ data.listed.nodes[i].tokenId # ""
              /\ ~Occurs(data.bought, data.listed.nodes[i].nftAddress,
                         data.listed.nodes[i].tokenId)
              /\ ~Occurs(data.cancelled, data.listed.nodes[i].nftAddress,
                         data.listed.nodes[i].tokenId) )
            => \E j \in DOMAIN nftDataList :
                 SameListing(nftDataList[j], data.listed.nodes[i])

C10_Witness ==
    /\ Reconciled
    /\ Len(data.listed.nodes) = 2
    /\ data.listed.nodes[1].tokenId = ""
    /\ data.listed.nodes[1].nftAddress # ""
    /\ Len(data.bought.nodes) = 0
    /\ Len(data.cancelled.nodes) = 0
    /\ Len(nftDataList) = 1

\* An absent collection read as an empty one.
AsEmpty(coll) == IF coll.present THEN coll ELSE Nodes(<<>>)

\* C11: when one of the three collections is absent from the loaded query
\* result, the reconciler raises no error and its output is the output for
\* the same result with that collection empty.
C11_AbsentTreatedAsEmpty ==
    queryStatus = "success"
    => /\ ~renderError
       /\ nftDataList = Reconcile([listed |-> AsEmpty(data.listed),
                                   bought |-> AsEmpty(data.bought),
                                   cancelled |-> AsEmpty(data.cancelled)])

\* The positions of listed whose event is complete and has no bought or
\* cancelled event with exactly the same address and the same token id.
SurvivorsByPair ==
    LET s == data.listed.nodes
    IN {i \in DOMAIN s :
          /\ s[i].nftAddress # ""
          /\ s[i].tokenId # ""
          /\ ~Occurs(data.bought, s[i].nftAddress, s[i].tokenId)
          /\ ~Occurs(data.cancelled, s[i].nftAddress, s[i].tokenId)}

\* C13: the output is the projection of the first 100 listed events that
\* are complete and whose (address, tokenId) pair is not terminated: an
\* event is excluded only for a bought or cancelled event with exactly its
\* pair, never for one whose combined key merely reads the same.
C13_ExcludedOnlyByExactPair ==
    Reconciled
    => LET surv == SurvivorsByPair
       IN /\ Len(nftDataList) = Min(Cardinality(surv), 100)
          /\ \A i \in surv :
               LET rank == Cardinality({k \in surv : k <= i})
               IN rank <= 100 => SameListing(nftDataList[rank], data.listed.nodes[i])

C13_Witness ==
    /\ Reconciled
    /\ Len(data.listed.nodes) = 2
    /\ data.listed.nodes[1].nftAddress = "0xA" /\ data.listed.nodes[1].tokenId = "11"
    /\ data.listed.nodes[2].nftAddress = "0xA" /\ data.listed.nodes[2].tokenId = "1"
    /\ Len(data.bought.nodes) = 1
    /\ data.bought.nodes[1] = [nftAddress |-> "0xA1", tokenId |-> "1"]
    /\ Len(nftDataList) = 2

(***************************************************************************)
(* Further properties of the compliance gate (specification Spec)          *)
(***************************************************************************)
\* C12: a decision in effect was produced by a screening call made for the
\* connected address: once the address has changed, the decision reached
\* for the previous address no longer stands.
C12_DecisionIsForConnectedAddress ==
    (isConnected /\ lastApplied # 0) => calls[lastApplied].addr = address

\* C14: a screening call is started exactly when the connected address
\* becomes a new non-empty value, and only then (no retry); once the call of
\* the connected address has completed the decision no longer changes while
\* the address stays; and a failed call leaves the gate Denied.
C14_NoRetry ==
    [][ /\ (address' # address /\ address' # "")
            => /\ Len(calls') = Len(calls) + 1
               /\ calls'[Len(calls')].addr = address'
        /\ (address' = address \/ address' = "")
            => Len(calls') = Len(calls)
        /\ ( /\ calls # <<>>
             /\ calls[Len(calls)].addr = address
             /\ Settled(calls[Len(calls)])
             /\ address' = address )
            => isCompliant' = isCompliant
        /\ ( /\ isConnected'
             /\ calls' # <<>>
             /\ calls'[Len(calls')].addr = address'
             /\ EvaluationFailed(calls'[Len(calls')]) )
            => ~isCompliant'
      ]_vars

\* C18: while no wallet is connected the listings are not rendered,
\* whatever decision is stored; and a step that disconnects the wallet
\* starts no screening call and leaves the stored decision as it was.
C18_DisconnectedShowsNothing ==
    [][ /\ ~isConnected' => View' # "listings"
        /\ (isConnected /\ ~isConnected')
            => /\ calls' = calls
               /\ isCompliant' = isCompliant
               /\ lastApplied' = lastApplied
      ]_vars

C18_Witness ==
    /\ ~isConnected
    /\ address = ""
    /\ lastApplied # 0
    /\ isCompliant
    /\ View = "connect"

(***************************************************************************)
(* Further properties of the gating endpoint (specification SpecApi)       *)
(***************************************************************************)
\* C16: the checks run in the order validation, bypass, API key: a request
\* without an address is answered 400 with success=false even when
\* screening is disabled, and a request with an address is answered
\* approved while screening is disabled even when no API key is configured.
C16_CheckOrder ==
    Handled
    => /\ (request.parsable /\ request.address = "")
            => /\ response.status = 400
               /\ ~response.success
               /\ ~response.hasIsApproved
       /\ (request.parsable /\ request.address # ""
             /\ ENABLE_COMPLIANCE_CHECK # "true")
            => /\ response.status = 200
               /\ response.success
               /\ response.hasIsApproved /\ response.isApproved

C16_Witness ==
    /\ Handled
    /\ request.parsable /\ request.address = ""
    /\ ENABLE_COMPLIANCE_CHECK = ""
    /\ CIRCLE_API_KEY = ""
    /\ response.status = 400

\* C17: handling one request issues at most one request to the provider,
\* and only when the address is present, screening is enabled and the API
\* key is configured; isApproved=true comes only with success=true, and a
\* response with success=false has no isApproved field.
C17_ProviderCalledOnlyWhenConfigured ==
    Handled
    => /\ response.providerCalls \in {0, 1}
       /\ response.providerCalls = 1
            => /\ request.parsable /\ request.address # ""
               /\ ENABLE_COMPLIANCE_CHECK = "true"
               /\ CIRCLE_API_KEY # ""
       /\ (response.hasIsApproved /\ response.isApproved) => response.success
       /\ ~response.success => ~response.hasIsApproved

C17_Witness ==
    /\ Handled
    /\ response.providerCalls = 1
    /\ provider.kind = "response"
    /\ ~response.success
    /\ ~response.hasIsApproved

====
